---- MODULE Spec2Model ----
(***************************************************************************)
(* A model of PairwiseRanker (src/pairwise-ranker.ts): one ranking session *)
(* with its constructor, reset, submitComparison and the read-only         *)
(* queries isSessionComplete, getNextMatch(es).                            *)
(*                                                                         *)
(* Numbers.  JavaScript numbers are IEEE doubles; here every fraction is a *)
(* fixed-point integer with One units to 1.0, rounded to nearest at each   *)
(* operation, and a raw score is a whole number of rating points.  A       *)
(* number that may be NaN is a record [nan, v].  Like the doubles of the   *)
(* code the arithmetic has finite precision: 1 + 10^x is exactly 1 once    *)
(* 10^x is below half a unit.                                              *)
(*                                                                         *)
(* Strings.  An identifier is a sequence of one-character strings, so that *)
(* sort() and join('||') of _getPairKey are computed, not assumed.         *)
(***************************************************************************)
EXTENDS Integers, Sequences, FiniteSets, TLC

VARIABLES
    session,        \* "unconstructed" | "live" | "failed" (the constructor threw)
    initialItems,   \* this._initialItems
    options,        \* this._options
    items,          \* this.items: own keys -> ItemData
    allPairs,       \* this.allPairs
    comparedPairs,  \* this.comparedPairs (a set of pair keys)
    lastCall,       \* the last call made: [op, args], and for a query the
                    \* result it returned
    lastError,      \* what that call threw, or "none" when it returned
    accepted        \* history: the sets {winner, loser} of the comparisons that
                    \* ran lines 109-122 since construction or the last reset

vars == <<session, initialItems, options, items, allPairs,
          comparedPairs, lastCall, lastError, accepted>>

----------------------------------------------------------------------------
(* Bounds of the model *)

\* longest items list handed to the constructor
MaxInput == 3
\* most comparisons accepted in the session of four items
MaxCompared == 3
\* largest n passed to getNextMatches
MaxN == 4

----------------------------------------------------------------------------
(* Strings *)

A == <<"A">>
B == <<"B">>
C == <<"C">>
D == <<"D">>
ToStringName == <<"t", "o", "S", "t", "r", "i", "n", "g">>
\* '__proto__': as a key of a plain object it names the object's prototype
ProtoKey == <<"_", "_", "p", "r", "o", "t", "o", "_", "_">>

\* identifiers a caller may put in the items list
ItemIds == {A, B, C}
\* property names every plain object inherits from Object.prototype
ProtoNames == {ToStringName}
\* every identifier a caller may pass to submitComparison
Names == ItemIds \cup ProtoNames

\* UTF-16 code unit of a character
CharCode(ch) ==
    CASE ch = "A" -> 65
      [] ch = "B" -> 66
      [] ch = "C" -> 67
      [] ch = "D" -> 68
      [] ch = "S" -> 83
      [] ch = "_" -> 95
      [] ch = "g" -> 103
      [] ch = "i" -> 105
      [] ch = "n" -> 110
      [] ch = "o" -> 111
      [] ch = "p" -> 112
      [] ch = "r" -> 114
      [] ch = "t" -> 116
      [] ch = "|" -> 124

\* x < y in the order Array.prototype.sort() uses without a comparator:
\* by code units, a proper prefix first
RECURSIVE StrLess(_, _)
StrLess(x, y) ==
    IF Len(y) = 0 THEN FALSE
    ELSE IF Len(x) = 0 THEN TRUE
    ELSE IF CharCode(Head(x)) # CharCode(Head(y))
         THEN CharCode(Head(x)) < CharCode(Head(y))
    ELSE StrLess(Tail(x), Tail(y))

Separator == <<"|", "|">>

\* _getPairKey: [itemA, itemB].sort().join('||')
\* (mutant: the sort() is dropped)
PairKeyKeepOrder(itemA, itemB) == itemA \o Separator \o itemB
PairKey(itemA, itemB) ==
    IF StrLess(itemB, itemA)
    THEN itemB \o Separator \o itemA
    ELSE itemA \o Separator \o itemB

----------------------------------------------------------------------------
(* Numbers *)

\* fixed-point units to 1.0
One == 1000

Abs(x) == IF x < 0 THEN -x ELSE x

\* a / b rounded to the nearest integer, b > 0
RDiv(a, b) ==
    IF a >= 0 THEN (2 * a + b) \div (2 * b)
    ELSE -((2 * (-a) + b) \div (2 * b))

Fin(x) == [nan |-> FALSE, v |-> x]
NaN == [nan |-> TRUE, v |-> 0]

\* One * 10^(2^k / 400), k = 0..8
Root == <<1006, 1012, 1023, 1047, 1096, 1202, 1445, 2089, 4365>>

\* One * 10^(r / 400) for 0 <= r < 400, by the binary digits of r
RECURSIVE PowFrac(_, _, _)
PowFrac(r, k, acc) ==
    IF r = 0 THEN acc
    ELSE PowFrac(r \div 2, k + 1,
                 IF r % 2 = 1 THEN RDiv(acc * Root[k], One) ELSE acc)

\* largest decimal exponent kept apart: beyond it 1/(1 + 10^x) is 0 anyway
MaxExp == 5

\* One * Math.pow(10, d / 400) for an integer d
Pow10(d) ==
    LET q == d \div 400
        f == PowFrac(d % 400, 1, One)
    IN  IF q >= 0
        THEN f * 10 ^ (IF q > MaxExp THEN MaxExp ELSE q)
        ELSE IF -q > MaxExp THEN 0 ELSE RDiv(f, 10 ^ (-q))

\* 1 / (1 + Math.pow(10, (loserScore - winnerScore) / 400)), in units of 1/One
Expected(winnerScore, loserScore) ==
    RDiv(One * One, One + Pow10(loserScore - winnerScore))

----------------------------------------------------------------------------
(* Configuration *)

InitialScore == 1200
DefaultConfidenceThreshold == 900
DefaultLowComparisonWeight == 500
DefaultConfidenceWeight == 300
DefaultProximityWeight == 200
DefaultKFactor == 32
\* the threshold 0.1 the test suite configures
TestConfidenceThreshold == 100

DefaultOptions ==
    [confidenceThreshold |-> DefaultConfidenceThreshold,
     lowComparisonWeight |-> DefaultLowComparisonWeight,
     confidenceWeight |-> DefaultConfidenceWeight,
     proximityWeight |-> DefaultProximityWeight,
     kFactor |-> DefaultKFactor]

NoOverrides == [f \in {} |-> 0]

\* the options arguments a caller passes: none, a low threshold, a huge K
OptionArgs ==
    {NoOverrides,
     [confidenceThreshold |-> TestConfidenceThreshold],
     [kFactor |-> 20000]}

\* { ...defaults, ...options }
MergeOptions(o) ==
    [f \in DOMAIN DefaultOptions |->
        IF f \in DOMAIN o THEN o[f] ELSE DefaultOptions[f]]

RECURSIVE SeqsUpTo(_)
SeqsUpTo(n) ==
    IF n = 0 THEN {<<>>}
    ELSE LET shorter == SeqsUpTo(n - 1)
         IN  shorter \cup {Append(s, x) : s \in shorter, x \in ItemIds}

\* the items arguments a caller passes
InputLists == SeqsUpTo(MaxInput)

----------------------------------------------------------------------------
(* Construction and reset *)

Range(s) == {s[i] : i \in 1..Len(s)}

\* [...new Set(items)]: first occurrences, in order
RECURSIVE Unique(_)
Unique(s) ==
    IF s = <<>> THEN <<>>
    ELSE LET front == Unique(SubSeq(s, 1, Len(s) - 1))
             x == s[Len(s)]
         IN  IF x \in Range(front) THEN front ELSE Append(front, x)

Confidence(comparisons) == One - RDiv(One, 1 + comparisons)

FreshItem(id) ==
    [item |-> id, score |-> Fin(InitialScore), confidence |-> 0, comparisons |-> 0]

\* the nested loops of reset(): (list[i], list[j]) for i < j
RECURSIVE PairsFrom(_, _, _)
PairsFrom(list, i, j) ==
    IF i > Len(list) THEN <<>>
    ELSE IF j > Len(list) THEN PairsFrom(list, i + 1, i + 2)
    ELSE <<[itemA |-> list[i], itemB |-> list[j]]>> \o PairsFrom(list, i, j + 1)

BuildPairs(list) == PairsFrom(list, 1, 2)

\* (mutant: line 88 is missing, the compared pairs survive a reset)
ResetStateKeepsCompared(list) ==
    /\ items' = [id \in Range(list) |-> FreshItem(id)]
    /\ allPairs' = BuildPairs(list)
    /\ UNCHANGED <<comparedPairs, accepted>>

\* the assignments of reset(), for the item list given
ResetState(list) ==
    /\ items' = [id \in Range(list) |-> FreshItem(id)]
    /\ allPairs' = BuildPairs(list)
    /\ comparedPairs' = {}
    /\ accepted' = {}

\* the guard of the constructor (!items is not modelled: a list is always
\* passed): it throws when this holds
TooFew(list) == Len(list) < 2

Init ==
    /\ session = "unconstructed"
    /\ initialItems = <<>>
    /\ options = DefaultOptions
    /\ items = [id \in {} |-> FreshItem(id)]
    /\ allPairs = <<>>
    /\ comparedPairs = {}
    /\ lastCall = [op |-> "none", args |-> <<>>]
    /\ lastError = "none"
    /\ accepted = {}

ConstructorThrows(list, o) ==
    /\ session = "unconstructed"
    /\ TooFew(list)
    /\ session' = "failed"
    /\ lastCall' = [op |-> "constructor", args |-> <<list, o>>]
    /\ lastError' = "InvalidInput"
    /\ UNCHANGED <<initialItems, options, items, allPairs, comparedPairs, accepted>>

ConstructorReturns(list, o) ==
    /\ session = "unconstructed"
    /\ ~TooFew(list)
    /\ session' = "live"
    /\ initialItems' = Unique(list)
    /\ options' = MergeOptions(o)
    /\ ResetState(Unique(list))
    /\ lastCall' = [op |-> "constructor", args |-> <<list, o>>]
    /\ lastError' = "none"

Constructor(list, o) == ConstructorThrows(list, o) \/ ConstructorReturns(list, o)

Reset ==
    /\ session = "live"
    /\ ResetState(initialItems)
    /\ lastCall' = [op |-> "reset", args |-> <<>>]
    /\ lastError' = "none"
    /\ UNCHANGED <<session, initialItems, options>>

----------------------------------------------------------------------------
(* submitComparison *)

\* this.items[name] is truthy: an ItemData stored under the name, or a member
\* inherited from Object.prototype (this.items is a plain object), or the
\* prototype itself
Truthy(name) == name \in DOMAIN items \/ name \in ProtoNames \/ name = ProtoKey

\* this.items[name].score read as a number: an inherited member has no score
\* field, and undefined is NaN in arithmetic
ScoreOf(name) == IF name \in DOMAIN items THEN items[name].score ELSE NaN

\* score + kFactor * (outcome - expected), outcome 1 for the winner and 0 for
\* the loser, expected in units of 1/One
NewScore(score, outcome, expected) ==
    Fin(score + RDiv(options.kFactor * (outcome * One - expected), One))

\* lines 112-116: the two scores after the update
WinnerScoreAfter(winner, loser) ==
    LET w == ScoreOf(winner)
        l == ScoreOf(loser)
    IN  IF w.nan \/ l.nan THEN NaN
        ELSE NewScore(w.v, 1, Expected(w.v, l.v))

LoserScoreAfter(winner, loser) ==
    LET w == ScoreOf(winner)
        l == ScoreOf(loser)
    IN  IF w.nan \/ l.nan THEN NaN
        ELSE NewScore(l.v, 0, One - Expected(w.v, l.v))

\* (mutant: the confidence is computed before the counter is incremented)
PlayedStaleConfidence(data, newScore) ==
    [item |-> data.item,
     score |-> newScore,
     confidence |-> Confidence(data.comparisons),
     comparisons |-> data.comparisons + 1]

\* lines 115-122 for one side: its new score, counter and confidence
Played(data, newScore) ==
    [item |-> data.item,
     score |-> newScore,
     confidence |-> Confidence(data.comparisons + 1),
     comparisons |-> data.comparisons + 1]

Call(op, winner, loser) == [op |-> op, args |-> <<winner, loser>>]

\* (mutant: the check of line 100 is missing)
SameItemNever(winner, loser) == FALSE

\* line 100
SameItem(winner, loser) == winner = loser

\* a throw before anything was assigned
Throws(error) ==
    /\ lastError' = error
    /\ UNCHANGED <<items, comparedPairs, accepted>>

\* lines 109-122
Accept(winner, loser) ==
    /\ items' = [id \in DOMAIN items |->
                    IF id = winner
                    THEN Played(items[id], WinnerScoreAfter(winner, loser))
                    ELSE IF id = loser
                    THEN Played(items[id], LoserScoreAfter(winner, loser))
                    ELSE items[id]]
    /\ comparedPairs' = comparedPairs \cup {PairKey(winner, loser)}
    /\ accepted' = accepted \cup {{winner, loser}}
    /\ lastError' = "none"

SubmitComparison(winner, loser) ==
    /\ session = "live"
    /\ lastCall' = Call("submitComparison", winner, loser)
    /\ IF ~Truthy(winner) \/ ~Truthy(loser)
       THEN Throws("UnknownItem")
       ELSE IF SameItem(winner, loser)
       THEN Throws("SameItem")
       ELSE IF PairKey(winner, loser) \in comparedPairs
       THEN /\ lastError' = "none"
            /\ UNCHANGED <<items, comparedPairs, accepted>>
       ELSE Accept(winner, loser)
    /\ UNCHANGED <<session, initialItems, options, allPairs>>

----------------------------------------------------------------------------
(* Queries: read-only, so each is an operator on the session `this` *)

\* the session object the methods run on
This ==
    [items |-> items, allPairs |-> allPairs, comparedPairs |-> comparedPairs,
     options |-> options, initialItems |-> initialItems]

\* the own keys of this.items: this.items['__proto__'] = data (line 70) makes
\* data the prototype of this.items, where this.items['__proto__'] reads it
\* back, and creates no own property
OwnKeys(this) == DOMAIN this.items \ {ProtoKey}

\* Object.values(this.items)
ItemValues(this) == {this.items[id] : id \in OwnKeys(this)}

\* (mutant: > in place of >= at line 165)
AllConfidentStrict(this) ==
    \A data \in ItemValues(this) :
        data.confidence > this.options.confidenceThreshold

AllConfident(this) ==
    \A data \in ItemValues(this) :
        data.confidence >= this.options.confidenceThreshold

IsSessionComplete(this) ==
    IF Cardinality(this.comparedPairs) = Len(this.allPairs)
    THEN TRUE
    ELSE AllConfident(this)

\* (mutant: the filter keeps every pair)
UncomparedPairsAll(this) == this.allPairs

\* lines 189-192
UncomparedPairs(this) ==
    SelectSeq(this.allPairs,
              LAMBDA pair : PairKey(pair.itemA, pair.itemB) \notin this.comparedPairs)

Scores(this) == {data.score : data \in ItemValues(this)}

\* Math.min(...scores): NaN as soon as one score is NaN
MathMin(scores) ==
    IF \E x \in scores : x.nan THEN NaN
    ELSE CHOOSE m \in scores : \A x \in scores : m.v <= x.v

\* Math.max(...scores)
MathMax(scores) ==
    IF \E x \in scores : x.nan THEN NaN
    ELSE CHOOSE m \in scores : \A x \in scores : m.v >= x.v

\* maxScore - minScore
Minus(x, y) == IF x.nan \/ y.nan THEN NaN ELSE Fin(x.v - y.v)

\* scoreRange > 0, false for NaN
Positive(scoreRange) == ~scoreRange.nan /\ scoreRange.v > 0

\* (score - minScore) / scoreRange, used only when scoreRange > 0
Normalized(score, minScore, scoreRange) ==
    RDiv((score.v - minScore.v) * One, scoreRange.v)

\* lines 203-221: the pair with its priority
ScoredPair(this, pair, minScore, scoreRange) ==
    LET itemA == this.items[pair.itemA]
        itemB == this.items[pair.itemB]
        comparisonTerm == this.options.lowComparisonWeight
        avgItemConfidence == RDiv(itemA.confidence + itemB.confidence, 2)
        confidenceTerm ==
            RDiv(this.options.confidenceWeight * (One - avgItemConfidence), One)
        scoreDifference ==
            IF Positive(scoreRange)
            THEN Abs(Normalized(itemA.score, minScore, scoreRange)
                     - Normalized(itemB.score, minScore, scoreRange))
            ELSE 0
        proximityTerm ==
            RDiv(this.options.proximityWeight * RDiv(One * One, One + scoreDifference),
                 One)
    IN  [itemA |-> pair.itemA, itemB |-> pair.itemB,
         score |-> comparisonTerm + confidenceTerm + proximityTerm]

\* (mutant: the comparator is a.score - b.score)
SortAsc(s) ==
    LET before(i) == {j \in 1..Len(s) :
                        \/ s[j].score < s[i].score
                        \/ s[j].score = s[i].score /\ j < i}
    IN  [k \in 1..Len(s) |->
            s[CHOOSE i \in 1..Len(s) : Cardinality(before(i)) = k - 1]]

\* sort((a, b) => b.score - a.score): descending, and stable, so equal scores
\* keep their order; element i lands behind every element that beats it
SortDesc(s) ==
    LET before(i) == {j \in 1..Len(s) :
                        \/ s[j].score > s[i].score
                        \/ s[j].score = s[i].score /\ j < i}
    IN  [k \in 1..Len(s) |->
            s[CHOOSE i \in 1..Len(s) : Cardinality(before(i)) = k - 1]]

\* (mutant: one element too few)
SliceShort(s, n) == SubSeq(s, 1, IF n - 1 < Len(s) THEN n - 1 ELSE Len(s))
\* slice(0, n) for n >= 0
Slice(s, n) == SubSeq(s, 1, IF n < Len(s) THEN n ELSE Len(s))

StripScore(p) == [itemA |-> p.itemA, itemB |-> p.itemB]

\* lines 189-225, once the session is known not to be complete
RankedMatches(this, n) ==
    LET uncomparedPairs == UncomparedPairs(this)
    IN  IF Len(uncomparedPairs) = 0 THEN <<>>
        ELSE LET minScore == MathMin(Scores(this))
                 maxScore == MathMax(Scores(this))
                 scoreRange == Minus(maxScore, minScore)
                 scoredPairs == [i \in 1..Len(uncomparedPairs) |->
                                    ScoredPair(this, uncomparedPairs[i], minScore, scoreRange)]
                 top == Slice(SortDesc(scoredPairs), n)
             IN  [i \in 1..Len(top) |-> StripScore(top[i])]

\* (mutant: the early return of lines 185-187 is missing)
GetNextMatchesUnguarded(this, n) == RankedMatches(this, n)

GetNextMatches(this, n) ==
    IF IsSessionComplete(this) THEN <<>> ELSE RankedMatches(this, n)

Null == [null |-> TRUE]

\* a Pair, or Null
GetNextMatch(this) ==
    LET matches == GetNextMatches(this, 1)
    IN  IF Len(matches) > 0 THEN matches[1] ELSE Null

\* Object.values(this.items) as the array it is: the own keys in the order
\* they were inserted, which is the order of this._initialItems (no
\* identifier of the model is an integer index, which would come first)
ItemDataOf(this) ==
    LET keys == SelectSeq(this.initialItems, LAMBDA id : id \in OwnKeys(this))
    IN  [i \in 1..Len(keys) |-> this.items[keys[i]]]

\* line 138: scoreRange > 0 ? (item.score - minScore) / scoreRange : 0.5
NormalizedScore(this, data) ==
    LET minScore == MathMin(Scores(this))
        maxScore == MathMax(Scores(this))
        scoreRange == Minus(maxScore, minScore)
    IN  IF Positive(scoreRange)
        THEN Normalized(data.score, minScore, scoreRange)
        ELSE One \div 2

\* lines 148-150: item.rank = index + 1
WithRanks(sorted) ==
    [k \in 1..Len(sorted) |->
        [item |-> sorted[k].item, score |-> sorted[k].score,
         confidence |-> sorted[k].confidence, rank |-> k]]

\* lines 129-153
GetRankings(this) ==
    LET itemData == ItemDataOf(this)
        rankedItems == [i \in 1..Len(itemData) |->
                          [item |-> itemData[i].item,
                           score |-> NormalizedScore(this, itemData[i]),
                           confidence |-> itemData[i].confidence,
                           rank |-> 0]]
    IN  WithRanks(SortDesc(rankedItems))

----------------------------------------------------------------------------
(* The queries as calls *)

\* (mutant: the query marks the first pair it would offer as compared)
MarksOfferedPair ==
    /\ comparedPairs' =
          LET uncomparedPairs == UncomparedPairs(This)
          IN  IF Len(uncomparedPairs) = 0 THEN comparedPairs
              ELSE comparedPairs \cup
                     {PairKey(uncomparedPairs[1].itemA, uncomparedPairs[1].itemB)}
    /\ UNCHANGED <<items, allPairs, options, initialItems, accepted>>

\* what a query assigns to the session: nothing. map, filter and slice build
\* new arrays, the sorts run on those, and the entries returned are new
\* objects
QueryAssigns ==
    UNCHANGED <<items, allPairs, comparedPairs, options, initialItems, accepted>>

Query(op, args, result) ==
    /\ session = "live"
    /\ lastCall' = [op |-> op, args |-> args, result |-> result]
    /\ lastError' = "none"
    /\ QueryAssigns
    /\ UNCHANGED session

GetRankingsCall == Query("getRankings", <<>>, GetRankings(This))

IsSessionCompleteCall == Query("isSessionComplete", <<>>, IsSessionComplete(This))

GetNextMatchCall == Query("getNextMatch", <<>>, GetNextMatch(This))

GetNextMatchesCall(n) == Query("getNextMatches", <<n>>, GetNextMatches(This, n))

----------------------------------------------------------------------------
(* The session as a state machine *)

Construct ==
    /\ session = "unconstructed"
    /\ \E list \in InputLists, o \in OptionArgs : Constructor(list, o)

\* callers pass any name to submitComparison
Next ==
    \/ Construct
    \/ Reset
    \/ \E winner \in Names, loser \in Names : SubmitComparison(winner, loser)

Spec == Init /\ [][Next]_vars

\* callers pass only identifiers of ItemIds to submitComparison
NextItemsOnly ==
    \/ Construct
    \/ Reset
    \/ \E winner \in ItemIds, loser \in ItemIds : SubmitComparison(winner, loser)

SpecItemsOnly == Init /\ [][NextItemsOnly]_vars

\* callers that also make the queries
NextQueries ==
    \/ Construct
    \/ Reset
    \/ \E winner \in ItemIds, loser \in ItemIds : SubmitComparison(winner, loser)
    \/ GetRankingsCall
    \/ IsSessionCompleteCall
    \/ GetNextMatchCall
    \/ \E n \in 1..MaxN : GetNextMatchesCall(n)

SpecQueries == Init /\ [][NextQueries]_vars

\* every sequence of at most n elements of ids
RECURSIVE SeqsOf(_, _)
SeqsOf(ids, n) ==
    IF n = 0 THEN {<<>>}
    ELSE LET shorter == SeqsOf(ids, n - 1)
         IN  shorter \cup {Append(s, x) : s \in shorter, x \in ids}

\* callers that use '__proto__' as an identifier
ProtoKeyIds == {A, B, ProtoKey}

ConstructProtoKey ==
    /\ session = "unconstructed"
    /\ \E list \in SeqsOf(ProtoKeyIds, MaxInput), o \in OptionArgs : Constructor(list, o)

NextProtoKey ==
    \/ ConstructProtoKey
    \/ Reset
    \/ \E winner \in ProtoKeyIds, loser \in ProtoKeyIds : SubmitComparison(winner, loser)

SpecProtoKey == Init /\ [][NextProtoKey]_vars

\* the session of four items of the test suite, followed for its first
\* MaxCompared accepted comparisons
FourItems == <<A, B, C, D>>

ConstructFourItems ==
    /\ session = "unconstructed"
    /\ Constructor(FourItems, NoOverrides)

NextFourItems ==
    \/ ConstructFourItems
    \/ Reset
    \/ /\ Cardinality(comparedPairs) < MaxCompared
       /\ \E winner \in Range(FourItems), loser \in Range(FourItems) :
             SubmitComparison(winner, loser)

SpecFourItems == Init /\ [][NextFourItems]_vars

\* callers whose identifiers contain the character of the key separator:
\* 'A|', 'A|||A' and '|A'
PipeIds ==
    {<<"A", "|">>, <<"A", "|", "|", "|", "A">>, <<"|", "A">>}

ConstructPipeIds ==
    /\ session = "unconstructed"
    /\ \E list \in SeqsOf(PipeIds, MaxInput), o \in OptionArgs : Constructor(list, o)

NextPipeIds ==
    \/ ConstructPipeIds
    \/ Reset
    \/ \E winner \in PipeIds, loser \in PipeIds : SubmitComparison(winner, loser)

SpecPipeIds == Init /\ [][NextPipeIds]_vars

\* callers that configure the threshold 0.5, the confidence of an item after
\* its first comparison
HalfThresholdArgs == {NoOverrides, [confidenceThreshold |-> 500]}

ConstructHalfThreshold ==
    /\ session = "unconstructed"
    /\ \E list \in InputLists, o \in HalfThresholdArgs : Constructor(list, o)

NextHalfThreshold ==
    \/ ConstructHalfThreshold
    \/ Reset
    \/ \E winner \in ItemIds, loser \in ItemIds : SubmitComparison(winner, loser)

SpecHalfThreshold == Init /\ [][NextHalfThreshold]_vars

\* the host loop of the control flow: the collaborator takes the pair of
\* getNextMatch(), obtains a winner (either member) and submits it, until
\* getNextMatch() has no pair to give; it restarts only a completed session.
\* Its identifiers are the ordinary ones or those of PipeIds.
HostLists == InputLists \cup SeqsOf(PipeIds, MaxInput)

ConstructHostLoop ==
    /\ session = "unconstructed"
    /\ \E list \in HostLists, o \in OptionArgs : Constructor(list, o)

HostSubmit ==
    /\ session = "live"
    /\ \E match \in {GetNextMatch(This)} :
          /\ match # Null
          /\ \/ SubmitComparison(match.itemA, match.itemB)
             \/ SubmitComparison(match.itemB, match.itemA)

HostRestart ==
    /\ session = "live"
    /\ IsSessionComplete(This)
    /\ Reset

NextHostLoop ==
    \/ ConstructHostLoop
    \/ HostSubmit
    \/ HostRestart

\* the host's turn, by the data alone: a submission of a pair of the universe
\* whose key is not in the compared-pairs set, while the session is not
\* complete. Every step of HostSubmit is one, no other step of NextHostLoop is,
\* and it is enabled exactly where getNextMatch() gives a pair (lines 175-176,
\* 185-196), so fairness on it is fairness on HostSubmit.
HostTurn ==
    /\ session = "live"
    /\ ~IsSessionComplete(This)
    /\ \E i \in 1..Len(allPairs) :
          /\ PairKey(allPairs[i].itemA, allPairs[i].itemB) \notin comparedPairs
          /\ \/ SubmitComparison(allPairs[i].itemA, allPairs[i].itemB)
             \/ SubmitComparison(allPairs[i].itemB, allPairs[i].itemA)

\* the host does not stop while getNextMatch() gives it a pair
SpecHostLoop == Init /\ [][NextHostLoop]_vars /\ WF_vars(HostTurn)

----------------------------------------------------------------------------
(* Vocabulary of the properties *)

Live == session = "live"
\* a session of at least two items, as the constructor means to build
Proper == session = "live" /\ Len(initialItems) >= 2
Submitted == lastCall.op = "submitComparison"
Winner == lastCall.args[1]
Loser == lastCall.args[2]
IsItem(name) == name \in Range(initialItems)
PairSet(pair) == {pair.itemA, pair.itemB}
\* the session after the step
ThisNext ==
    [items |-> items', allPairs |-> allPairs', comparedPairs |-> comparedPairs',
     options |-> options', initialItems |-> initialItems']
NValues == 1..MaxN

\* nothing of the session's data changes in the step
SessionUnchanged ==
    /\ items' = items
    /\ comparedPairs' = comparedPairs
    /\ allPairs' = allPairs
    /\ options' = options
    /\ initialItems' = initialItems

\* Number comparisons, false when a side is NaN
Greater(x, y) == ~x.nan /\ ~y.nan /\ x.v > y.v
Less(x, y) == ~x.nan /\ ~y.nan /\ x.v < y.v

\* how many pairs of the universe are not in the compared-pairs set
UncomparedCount ==
    Cardinality({i \in 1..Len(allPairs) :
                    PairKey(allPairs[i].itemA, allPairs[i].itemB) \notin comparedPairs})

\* the step was a submitComparison(w, l) of two distinct items of the session
\* whose pair was not in the compared-pairs set
AcceptedStep ==
    /\ Submitted'
    /\ IsItem(Winner') /\ IsItem(Loser')
    /\ Winner' # Loser'
    /\ PairKey(Winner', Loser') \notin comparedPairs

----------------------------------------------------------------------------
(* C1 *)

\* no pair that getNextMatches(n) or getNextMatch() returns on `this` is in acc
NoneReturnedIn(this, acc) ==
    /\ \A n \in NValues :
          LET matches == GetNextMatches(this, n)
          IN  \A i \in 1..Len(matches) : PairSet(matches[i]) \notin acc
    /\ LET match == GetNextMatch(this)
       IN  match # Null => PairSet(match) \notin acc

\* C1: in every state of a session, no pair returned by getNextMatches(n),
\* for any n, or by getNextMatch() has had a comparison accepted (with either
\* member as the winner) since construction or the last reset; and after a
\* submitComparison that returned normally, getNextMatch() does not return the
\* pair just submitted.
C1_NeverAComparedPair ==
    Live =>
        /\ NoneReturnedIn(This, accepted)
        /\ (Submitted /\ lastError = "none") =>
              LET match == GetNextMatch(This)
              IN  match # Null => PairSet(match) # {Winner, Loser}

\* a pair was just submitted and accepted, and a next match is still offered
C1_Witness ==
    /\ Live /\ Submitted /\ lastError = "none"
    /\ {Winner, Loser} \in accepted
    /\ IsItem(Winner) /\ IsItem(Loser)
    /\ GetNextMatch(This) # Null

----------------------------------------------------------------------------
(* C2 *)

\* C2: a submitComparison of two identifiers between which a comparison was
\* accepted before (in this or the other order) returns normally and changes
\* no score, confidence or comparison count, nor the compared-pairs set.
C2_ResubmissionIsNoOp ==
    [][(Submitted' /\ {Winner', Loser'} \in accepted) =>
        /\ lastError' = "none"
        /\ items' = items
        /\ comparedPairs' = comparedPairs
        /\ accepted' = accepted]_vars

\* in a session of A and B where A won the one comparison, the last call was
\* submitComparison(B, A): the re-submission in the other order
C2_Witness ==
    /\ Live /\ Submitted /\ lastError = "none"
    /\ initialItems = <<A, B>>
    /\ Winner = B /\ Loser = A
    /\ {A, B} \in accepted
    /\ Greater(items[A].score, items[B].score)

----------------------------------------------------------------------------
(* C3 *)

\* (a) of the claim: every pair of the universe has had a comparison accepted
EveryPairCompared ==
    \A i \in 1..Len(allPairs) : PairSet(allPairs[i]) \in accepted

\* (b) of the claim: every item's confidence is at least the threshold
EveryItemConfident ==
    \A id \in DOMAIN items : items[id].confidence >= options.confidenceThreshold

\* C3: in a session of at least two items, isSessionComplete() is true
\* exactly when every pair of the universe has been compared or every item's
\* confidence is at least the threshold.
C3_CompleteIff ==
    Proper => (IsSessionComplete(This) <=> (EveryPairCompared \/ EveryItemConfident))

----------------------------------------------------------------------------
(* C4 *)

\* C4: in a session of at least two items, a submitComparison in which the
\* winner or the loser is not an item of the session throws UnknownItem and
\* changes nothing of the session.
C4_UnknownItemThrows ==
    [][(Proper /\ Submitted' /\ (~IsItem(Winner') \/ ~IsItem(Loser'))) =>
        /\ lastError' = "UnknownItem"
        /\ SessionUnchanged]_vars

----------------------------------------------------------------------------
(* C5 *)

\* C5 as claimed: in a session of at least two items, submitComparison(x, x)
\* throws SameItem, whatever x is, and changes nothing of the session.
C5_AlwaysSameItem ==
    [][(Proper /\ Submitted' /\ Winner' = Loser') =>
        /\ lastError' = "SameItem"
        /\ SessionUnchanged]_vars

\* C5, amended: submitComparison(x, x) always throws and changes nothing of the
\* session; it throws SameItem when x is an item of the session or a member
\* this.items inherits, and UnknownItem for any other x.
C5_SameItemOrUnknown ==
    [][(Submitted' /\ Winner' = Loser') =>
        /\ SessionUnchanged
        /\ IsItem(Winner') => lastError' = "SameItem"
        /\ (~IsItem(Winner') /\ Winner' \in ProtoNames) => lastError' = "SameItem"
        /\ (~IsItem(Winner') /\ Winner' \notin ProtoNames) => lastError' = "UnknownItem"]_vars

\* after some comparison was accepted, an item was submitted against itself
C5_Witness ==
    /\ Live /\ Submitted
    /\ Winner = Loser /\ IsItem(Winner)
    /\ lastError = "SameItem"
    /\ accepted # {}

----------------------------------------------------------------------------
(* C6 *)

\* C6: a constructor call whose list holds fewer than two distinct identifiers
\* throws InvalidInput, and no session has fewer than two items.
C6_TooFewDistinctThrows ==
    /\ (lastCall.op = "constructor" /\ Cardinality(Range(lastCall.args[1])) < 2)
          => (lastError = "InvalidInput" /\ session = "failed")
    /\ Live => Cardinality(DOMAIN items) >= 2

----------------------------------------------------------------------------
(* C7 *)

\* C7: a submitComparison(W, L) of two distinct items of the session whose
\* pair is not in the compared-pairs set returns normally, adds exactly that
\* pair to the set, adds 1 to the comparison counts of W and of L, sets their
\* confidences to 1 - 1/(1 + new count), and leaves the score, confidence and
\* count of every other item as they were.
C7_AcceptedUpdate ==
    [][AcceptedStep =>
        LET w == Winner'
            l == Loser'
        IN  /\ lastError' = "none"
            /\ comparedPairs' = comparedPairs \cup {PairKey(w, l)}
            /\ Cardinality(comparedPairs') = Cardinality(comparedPairs) + 1
            /\ accepted' = accepted \cup {{w, l}}
            /\ DOMAIN items' = DOMAIN items
            /\ \A id \in {w, l} :
                  /\ items'[id].comparisons = items[id].comparisons + 1
                  /\ items'[id].confidence
                        = One - RDiv(One, 1 + items'[id].comparisons)
            /\ \A id \in DOMAIN items \ {w, l} : items'[id] = items[id]]_vars

\* the last call was the winner's second comparison and the loser's first, in
\* a session of three items
C7_Witness ==
    /\ Live /\ Submitted /\ lastError = "none"
    /\ Len(initialItems) = 3
    /\ IsItem(Winner) /\ IsItem(Loser) /\ Winner # Loser
    /\ {Winner, Loser} \in accepted
    /\ Cardinality(accepted) = 2
    /\ items[Winner].comparisons = 2
    /\ items[Loser].comparisons = 1

----------------------------------------------------------------------------
(* C8 *)

\* C8: a submitComparison(W, L) of two distinct items of the session whose
\* pair is not in the compared-pairs set, under a positive K-factor, leaves
\* W's score strictly greater and L's score strictly smaller than before.
C8_WinnerUpLoserDown ==
    [][(AcceptedStep /\ options.kFactor > 0) =>
        /\ Greater(items'[Winner'].score, items[Winner'].score)
        /\ Less(items'[Loser'].score, items[Loser'].score)]_vars

----------------------------------------------------------------------------
(* C9 *)

\* C9 as claimed: getNextMatches(n) returns at most n pairs, and fewer than n
\* only when fewer than n pairs of the universe are uncompared.
C9_FewerOnlyWhenFewerLeft ==
    Proper =>
        \A n \in NValues :
            LET matches == GetNextMatches(This, n)
            IN  /\ Len(matches) <= n
                /\ Len(matches) < n => UncomparedCount < n

\* C9, amended: getNextMatches(n) returns at most n pairs, and fewer than n
\* only when fewer than n pairs of the universe are uncompared or
\* isSessionComplete() is true (and then it returns none).
C9_FewerOnlyWhenFewerLeftOrComplete ==
    Live =>
        \A n \in NValues :
            LET matches == GetNextMatches(This, n)
            IN  /\ Len(matches) <= n
                /\ Len(matches) < n =>
                      \/ UncomparedCount < n
                      \/ IsSessionComplete(This) /\ Len(matches) = 0

\* two pairs are left in a session that is not complete: asked for one,
\* getNextMatches returns one, asked for more than two, it returns the two
C9_Witness ==
    /\ Live /\ ~IsSessionComplete(This)
    /\ accepted # {}
    /\ UncomparedCount = 2
    /\ Len(GetNextMatches(This, 1)) = 1
    /\ Len(GetNextMatches(This, MaxN)) = 2

----------------------------------------------------------------------------
(* C10 *)

\* C10: while isSessionComplete() is true, getNextMatches(n) returns the empty
\* sequence for every n and getNextMatch() returns null.
C10_NothingOnceComplete ==
    (Live /\ IsSessionComplete(This)) =>
        /\ \A n \in NValues : GetNextMatches(This, n) = <<>>
        /\ GetNextMatch(This) = Null

\* the session is complete by its confidences while a pair is still uncompared
C10_Witness ==
    /\ Proper /\ IsSessionComplete(This)
    /\ accepted # {}
    /\ UncomparedCount > 0
    /\ \A key \in comparedPairs :
          \E i \in 1..Len(allPairs) : key = PairKey(allPairs[i].itemA, allPairs[i].itemB)

----------------------------------------------------------------------------
(* C11 *)

\* position of the pair (list[i], list[j]), i < j, in the enumeration of the
\* pairs of a list of n items: by i, then by j
PairIndex(n, i, j) == (i - 1) * n - (i * (i - 1)) \div 2 + (j - i)

\* what a session holds right after construction from the list given
IsFreshOf(this, list) ==
    /\ DOMAIN this.items = Range(list)
    /\ \A id \in Range(list) :
          /\ this.items[id].item = id
          /\ this.items[id].score = Fin(1200)
          /\ this.items[id].confidence = 0
          /\ this.items[id].comparisons = 0
    /\ this.comparedPairs = {}
    /\ Len(this.allPairs) = (Len(list) * (Len(list) - 1)) \div 2
    /\ \A i \in 1..Len(list), j \in 1..Len(list) :
          i < j => this.allPairs[PairIndex(Len(list), i, j)]
                      = [itemA |-> list[i], itemB |-> list[j]]

\* C11: after a reset() the session holds what a freshly constructed session
\* of the same items holds (every item at score 1200, confidence 0 and 0
\* comparisons, no compared pair, the same pairs in the same order), and its
\* items list and configuration are as before the reset.
C11_ResetIsFresh ==
    [][lastCall'.op = "reset" =>
        /\ IsFreshOf(ThisNext, initialItems)
        /\ accepted' = {}
        /\ options' = options
        /\ initialItems' = initialItems
        /\ session' = session]_vars

\* a session of three items with a configured threshold has just been reset
C11_Witness ==
    /\ Live /\ lastCall.op = "reset"
    /\ Len(initialItems) = 3
    /\ options.confidenceThreshold = TestConfidenceThreshold
    /\ IsFreshOf(This, initialItems)

----------------------------------------------------------------------------
(* C12 *)

\* C12: in every state of a constructed session, getRankings() returns
\* exactly one entry per distinct identifier of the constructor's list: each
\* identifier is the item of exactly one entry, so the length is the number
\* of distinct identifiers (in every state, hence unchanged by
\* submitComparison and reset).
C12_OneEntryPerItem ==
    Live =>
        LET rankings == GetRankings(This)
        IN  /\ (lastCall.op = "constructor")
                  => Range(initialItems) = Range(lastCall.args[1])
            /\ Len(rankings) = Cardinality(Range(initialItems))
            /\ \A id \in Range(initialItems) :
                  Cardinality({k \in 1..Len(rankings) : rankings[k].item = id}) = 1

----------------------------------------------------------------------------
(* C13 *)

\* the raw score of the item an entry of getRankings() reports
RawScore(entry) == items[entry.item].score

\* C13: getRankings() returns its entries in non-increasing order of reported
\* score, the rank of the k-th entry is k, and an item with a strictly higher
\* raw score than another has a strictly smaller rank.
C13_SortedAndRanked ==
    Live =>
        LET rankings == GetRankings(This)
        IN  /\ \A k \in 1..(Len(rankings) - 1) :
                  rankings[k].score >= rankings[k + 1].score
            /\ \A k \in 1..Len(rankings) : rankings[k].rank = k
            /\ \A j \in 1..Len(rankings), k \in 1..Len(rankings) :
                  Greater(RawScore(rankings[j]), RawScore(rankings[k]))
                      => rankings[j].rank < rankings[k].rank

----------------------------------------------------------------------------
(* C14 *)

\* C14: every score getRankings() reports lies in [0, 1]; when all raw scores
\* are equal every reported score is 0.5; an item whose raw score is above
\* some other's and below none is reported as 1, and an item whose raw score
\* is below some other's and above none is reported as 0.
C14_NormalizedScores ==
    Live =>
        LET rankings == GetRankings(This)
            entries == 1..Len(rankings)
            raw(k) == RawScore(rankings[k])
        IN  /\ \A k \in entries :
                  rankings[k].score >= 0 /\ rankings[k].score <= One
            /\ (\A j \in entries, k \in entries : ~raw(j).nan /\ raw(j) = raw(k))
                  => \A k \in entries : 2 * rankings[k].score = One
            /\ \A k \in entries :
                  /\ ((\E j \in entries : Greater(raw(k), raw(j)))
                        /\ (\A j \in entries : ~Greater(raw(j), raw(k))))
                      => rankings[k].score = One
                  /\ ((\E j \in entries : Less(raw(k), raw(j)))
                        /\ (\A j \in entries : ~Less(raw(j), raw(k))))
                      => rankings[k].score = 0

----------------------------------------------------------------------------
(* C15 *)

\* every item's confidence is strictly above the threshold
EveryItemAboveThreshold ==
    \A id \in DOMAIN items : items[id].confidence > options.confidenceThreshold

\* some item's confidence equals the threshold
SomeItemAtThreshold ==
    \E id \in DOMAIN items : items[id].confidence = options.confidenceThreshold

----------------------------------------------------------------------------
(* C16 *)

\* C16: for any two distinct items x and y of the session, the key of (x, y),
\* which is the key of (y, x), is in the compared-pairs set exactly when a
\* comparison between x and y has been accepted since construction or the
\* last reset.
C16_ComparedIffAccepted ==
    Live =>
        \A x \in Range(initialItems), y \in Range(initialItems) :
            x # y =>
                /\ PairKey(x, y) = PairKey(y, x)
                /\ PairKey(x, y) \in comparedPairs <=> {x, y} \in accepted

----------------------------------------------------------------------------
(* C17 *)

\* the places of the uncompared pairs in the Pair Universe
UncomparedPlaces ==
    {i \in 1..Len(allPairs) :
        PairKey(allPairs[i].itemA, allPairs[i].itemB) \notin comparedPairs}

\* pairScore of the pair at place i, as the claim writes it
PairScoreAt(i) ==
    LET a == items[allPairs[i].itemA]
        b == items[allPairs[i].itemB]
        meanConfidence == RDiv(a.confidence + b.confidence, 2)
        distance == Abs(NormalizedScore(This, a) - NormalizedScore(This, b))
    IN  options.lowComparisonWeight
        + RDiv(options.confidenceWeight * (One - meanConfidence), One)
        + RDiv(options.proximityWeight * RDiv(One * One, One + distance), One)

\* the pair at place i comes before the pair at place j: a higher pairScore,
\* or the same and an earlier place
ComesBefore(i, j) ==
    \/ PairScoreAt(i) > PairScoreAt(j)
    \/ PairScoreAt(i) = PairScoreAt(j) /\ i < j

\* matches is the first n of the uncompared pairs in that order
IsFirstOfRanked(matches, n) ==
    LET count == Cardinality(UncomparedPlaces)
    IN  /\ Len(matches) = (IF n < count THEN n ELSE count)
        /\ \A k \in 1..Len(matches) :
              \E i \in UncomparedPlaces :
                  /\ matches[k] = allPairs[i]
                  /\ Cardinality({j \in UncomparedPlaces : ComesBefore(j, i)}) = k - 1

\* C17: in every state that is not complete, getNextMatches(n) is the first n
\* of the uncompared pairs by descending pairScore, pairs of equal pairScore
\* in the order of the Pair Universe, each as the universe holds it; on a
\* fresh session that is the first n pairs of the universe.
C17_FirstOfRanked ==
    (Live /\ ~IsSessionComplete(This)) =>
        \A n \in NValues :
            LET matches == GetNextMatches(This, n)
            IN  /\ IsFirstOfRanked(matches, n)
                /\ comparedPairs = {}
                      => matches = SubSeq(allPairs, 1, Len(matches))

\* after some comparisons the pair offered first is not the first uncompared
\* pair of the universe, and the last pair offered scores lower than the first
C17_Witness ==
    /\ Live /\ ~IsSessionComplete(This)
    /\ accepted # {}
    /\ LET matches == GetNextMatches(This, MaxN)
       IN  /\ Len(matches) = MaxN
           /\ \E i \in UncomparedPlaces :
                  /\ \A j \in UncomparedPlaces : i <= j
                  /\ matches[1] # allPairs[i]
           /\ \E i \in UncomparedPlaces, j \in UncomparedPlaces :
                  /\ matches[1] = allPairs[i]
                  /\ matches[MaxN] = allPairs[j]
                  /\ PairScoreAt(i) > PairScoreAt(j)

----------------------------------------------------------------------------
(* C18 *)

\* the Pair Universe of `this` is exactly the pairs (items[i], items[j]),
\* i < j, of its items list, each at its place of the enumeration
IsUniverseOf(this) ==
    LET n == Len(this.initialItems)
    IN  /\ Len(this.allPairs) = (n * (n - 1)) \div 2
        /\ \A i \in 1..n, j \in 1..n :
              i < j => this.allPairs[PairIndex(n, i, j)]
                          = [itemA |-> this.initialItems[i],
                             itemB |-> this.initialItems[j]]

\* the keys of the pairs of the universe
UniverseKeys(this) ==
    {PairKey(this.allPairs[i].itemA, this.allPairs[i].itemB) :
        i \in 1..Len(this.allPairs)}

\* C18: after every step a session of n >= 2 items has as its Pair Universe
\* exactly the n*(n-1)/2 pairs of its items in enumeration order;
\* submitComparison does not change it; the compared-pairs set holds only
\* pairs of the universe, and only reset removes anything from it.
C18_UniverseFixed ==
    [][Proper' =>
        /\ IsUniverseOf(ThisNext)
        /\ Submitted' => allPairs' = allPairs
        /\ comparedPairs' \subseteq UniverseKeys(ThisNext)
        /\ (Live /\ lastCall'.op # "reset") => comparedPairs \subseteq comparedPairs']_vars

----------------------------------------------------------------------------
(* C19 *)

QueryOps == {"getRankings", "isSessionComplete", "getNextMatch", "getNextMatches"}

\* C19: a call of getRankings(), isSessionComplete(), getNextMatch() or
\* getNextMatches(n) leaves the items' scores, confidences and counts, the
\* compared-pairs set, the Pair Universe and the configuration as they were,
\* and returns what the same query returned when it was the call before.
C19_QueriesReadOnly ==
    [][lastCall'.op \in QueryOps =>
        /\ SessionUnchanged
        /\ accepted' = accepted
        /\ session' = session
        /\ (lastCall.op = lastCall'.op /\ lastCall.args = lastCall'.args)
              => lastCall'.result = lastCall.result]_vars

\* after some comparison, getNextMatches(2) has just returned two pairs
C19_Witness ==
    /\ Live /\ lastCall.op = "getNextMatches"
    /\ lastCall.args = <<2>>
    /\ Len(lastCall.result) = 2
    /\ accepted # {}

----------------------------------------------------------------------------
(* C20 *)

\* the keys of the compared-pairs set that are the key of a pair of id with
\* another item of the session
ComparedWith(id) ==
    {key \in comparedPairs :
        \E other \in Range(initialItems) \ {id} : key = PairKey(id, other)}

\* the sum of the comparison counts of the items of list
RECURSIVE SumOfCounts(_)
SumOfCounts(list) ==
    IF list = <<>> THEN 0
    ELSE items[Head(list)].comparisons + SumOfCounts(Tail(list))

\* C20: in a session of n >= 2 items, each item's comparison count is the
\* number of pairs of the compared-pairs set that contain it, so it lies in
\* 0..n-1; the counts sum to twice the size of the set; and each confidence
\* lies in [0, 1 - 1/n].
C20_CountsMatchComparedPairs ==
    Proper =>
        LET n == Len(initialItems)
        IN  /\ \A id \in Range(initialItems) :
                  /\ items[id].comparisons = Cardinality(ComparedWith(id))
                  /\ items[id].comparisons >= 0
                  /\ items[id].comparisons <= n - 1
                  /\ items[id].confidence >= 0
                  /\ items[id].confidence <= One - RDiv(One, n)
            /\ SumOfCounts(initialItems) = 2 * Cardinality(comparedPairs)

----------------------------------------------------------------------------
(* C21 *)

\* C21: in a session of at least two items, once isSessionComplete() is true
\* it is still true, and getNextMatch() is null, after any submitComparison
\* call, whether it returned or threw.
C21_CompletionMonotone ==
    [][(Proper /\ IsSessionComplete(This) /\ Submitted') =>
        /\ IsSessionComplete(ThisNext)
        /\ GetNextMatch(ThisNext) = Null]_vars

----------------------------------------------------------------------------
(* C22 *)

\* C22: whenever isSessionComplete() is false, getNextMatch() returns a pair
\* and getNextMatches(n) is non-empty for every n >= 1.
C22_NeverEmptyWhileIncomplete ==
    (Proper /\ ~IsSessionComplete(This)) =>
        /\ GetNextMatch(This) # Null
        /\ \A n \in NValues : Len(GetNextMatches(This, n)) >= 1

\* C23: in the host loop every submission returns normally and adds one key to
\* the compared-pairs set, the set never has more than n*(n-1)/2 keys, and a
\* session always reaches a state where isSessionComplete() is true.
C23_HostLoopTerminates ==
    /\ [][(Live /\ Submitted') =>
            /\ lastError' = "none"
            /\ Cardinality(comparedPairs') = Cardinality(comparedPairs) + 1]_vars
    /\ [](Live => Cardinality(comparedPairs) <= Len(allPairs))
    /\ (Live ~> (Live /\ IsSessionComplete(This)))

\* C24: in a session of at least two items with the default confidence
\* threshold 0.9 (the sessions of the model have at most MaxInput items, fewer
\* than 10), isSessionComplete() is true exactly when every pair of the Pair
\* Universe has had a comparison accepted: no item reaches the threshold
\* before that.
C24_NeverEndsEarly ==
    (Proper /\ options.confidenceThreshold = DefaultConfidenceThreshold) =>
        /\ IsSessionComplete(This) <=> EveryPairCompared
        /\ ~EveryPairCompared => ~AllConfident(This)
====
